---- MODULE Spec2Model ----
(***************************************************************************)
(* A model of go-yinfft: the YinFFT pitch detector (yinfft.go) and the     *)
(* generic peak detector (internal/peakdetector/peakdetector.go).          *)
(*                                                                         *)
(* float64 values are modelled as exact rationals [n, d] with d > 0 in     *)
(* lowest terms, extended with the IEEE-754 specials the code can produce  *)
(* by dividing by zero: d = 0 and n = 1 (+Inf), n = -1 (-Inf), n = 0 (NaN).*)
(***************************************************************************)
EXTENDS Integers, Sequences, FiniteSets, TLC

\* ------------------------------------------------------------------------
\* float64 arithmetic
\* ------------------------------------------------------------------------

Abs(x) == IF x < 0 THEN -x ELSE x

Sign(x) == IF x < 0 THEN -1 ELSE IF x > 0 THEN 1 ELSE 0

RECURSIVE GCD(_, _)
GCD(a, b) == IF b = 0 THEN a ELSE GCD(b, a % b)

\* the float64 n/d: lowest terms, positive denominator; d = 0 gives
\* +Inf, -Inf or NaN by the sign of n
F(n, d) ==
  IF d = 0 THEN [n |-> Sign(n), d |-> 0]
  ELSE IF d = 1 THEN [n |-> n, d |-> 1]
  ELSE IF n = 0 THEN [n |-> 0, d |-> 1]
  ELSE LET g == GCD(Abs(n), Abs(d))
           s == IF d < 0 THEN -1 ELSE 1
       IN [n |-> s * (n \div g), d |-> s * (d \div g)]

FInt(k) == [n |-> k, d |-> 1]

NaN == [n |-> 0, d |-> 0]

PosInf == [n |-> 1, d |-> 0]

NegInf == [n |-> -1, d |-> 0]

IsNaN(a) == a.d = 0 /\ a.n = 0

IsInf(a) == a.d = 0 /\ a.n # 0

IsFinite(a) == a.d # 0

FNeg(a) == [n |-> -a.n, d |-> a.d]

FAdd(a, b) ==
  IF IsNaN(a) \/ IsNaN(b) THEN NaN
  ELSE IF IsInf(a) /\ IsInf(b) THEN (IF a.n = b.n THEN a ELSE NaN)
  ELSE IF IsInf(a) THEN a
  ELSE IF IsInf(b) THEN b
  ELSE IF a.d = b.d THEN F(a.n + b.n, a.d)
  ELSE LET g == GCD(a.d, b.d)
           l == (a.d \div g) * b.d
       IN F(a.n * (l \div a.d) + b.n * (l \div b.d), l)

FSub(a, b) == FAdd(a, FNeg(b))

FMul(a, b) ==
  IF IsNaN(a) \/ IsNaN(b) THEN NaN
  ELSE IF IsInf(a) \/ IsInf(b)
       THEN F(Sign(a.n) * Sign(b.n), 0)
  ELSE IF a.n = 0 \/ b.n = 0 THEN [n |-> 0, d |-> 1]
  ELSE IF a.d = 1 /\ b.d = 1 THEN [n |-> a.n * b.n, d |-> 1]
  ELSE LET g1 == GCD(Abs(a.n), b.d)
           g2 == GCD(Abs(b.n), a.d)
       IN F((a.n \div g1) * (b.n \div g2), (a.d \div g2) * (b.d \div g1))

\* 1/a; 1/0 = +Inf, 1/Inf = 0
FRecip(a) ==
  IF IsNaN(a) THEN NaN
  ELSE IF IsInf(a) THEN FInt(0)
  ELSE F(a.d, a.n)

FDiv(a, b) == FMul(a, FRecip(b))

\* compares the finite a/b and c/d (b, d > 0) without forming cross
\* products: -1, 0 or 1
RECURSIVE CmpFrac(_, _, _, _)
CmpFrac(a, b, c, d) ==
  LET qa == a \div b
      qc == c \div d
      ra == a - qa * b
      rc == c - qc * d
  IN IF qa # qc THEN (IF qa < qc THEN -1 ELSE 1)
     ELSE IF ra = 0 /\ rc = 0 THEN 0
     ELSE IF ra = 0 THEN -1
     ELSE IF rc = 0 THEN 1
     ELSE CmpFrac(d, rc, b, ra)

\* the comparison of two non-NaN floats: -1, 0 or 1
FCmp(a, b) ==
  IF IsInf(a) \/ IsInf(b)
  THEN LET ra == IF IsInf(a) THEN a.n ELSE 0
           rb == IF IsInf(b) THEN b.n ELSE 0
       IN Sign(ra - rb)
  ELSE CmpFrac(a.n, a.d, b.n, b.d)

\* the Go comparisons: every comparison with NaN is false, except !=
FLt(a, b) == ~IsNaN(a) /\ ~IsNaN(b) /\ FCmp(a, b) < 0

FLe(a, b) == ~IsNaN(a) /\ ~IsNaN(b) /\ FCmp(a, b) <= 0

FGt(a, b) == FLt(b, a)

FGe(a, b) == FLe(b, a)

FEq(a, b) == ~IsNaN(a) /\ ~IsNaN(b) /\ FCmp(a, b) = 0

\* math.Floor and math.Ceil of a finite float, as an integer
Floor(a) == a.n \div a.d

Ceil(a) == -((-a.n) \div a.d)

FMin(a, b) == IF IsNaN(a) \/ IsNaN(b) THEN NaN ELSE IF FCmp(a, b) <= 0 THEN a ELSE b

\* math.Sqrt(q) for q >= 0, kept exact as the radicand: the real number
\* whose square is q
Sqrt(q) == [rad |-> q]

\* math.Pow(x, 2) of a value x = Sqrt(q)
Pow2(x) == x.rad

\* the float64 of an integer magnitude m >= 0, as a value of the Sqrt form
Mag(m) == Sqrt(FInt(m * m))

\* math.Cos(2*math.Pi*k/m) at the angles where it is rational (k/m a
\* multiple of 1/2, 1/3, 1/4 or 1/6 of a turn); a zero m divides by zero and
\* the cosine of the NaN is NaN
Cos2Pi(k, m) ==
  IF m = 0 THEN NaN
  ELSE LET r == k % m
       IN CASE r = 0 -> FInt(1)
            [] 2 * r = m -> FInt(-1)
            [] 4 * r = m \/ 4 * r = 3 * m -> FInt(0)
            [] 3 * r = m \/ 3 * r = 2 * m -> F(-1, 2)
            [] 6 * r = m \/ 6 * r = 5 * m -> F(1, 2)

\* math.Sin(2*math.Pi*k/m) where k/m is a multiple of a quarter turn
Sin2Pi(k, m) ==
  LET r == k % m
  IN CASE r = 0 \/ 2 * r = m -> FInt(0)
       [] 4 * r = m -> FInt(1)
       [] 4 * r = 3 * m -> FInt(-1)

\* a slice with every element computed: the function f as an explicit sequence
Slice(f) == IF f = <<>> THEN <<>> ELSE f

\* the element of a Go slice (0-based) held as a sequence
At(s, i) == s[i + 1]

RECURSIVE FSum(_, _)
FSum(f, n) == IF n = 0 THEN FInt(0) ELSE FAdd(FSum(f, n - 1), f[n])

\* ------------------------------------------------------------------------
\* yinfft.go: weighting curves and the weight table
\* ------------------------------------------------------------------------

curveSize == 34

\* frequencyBands, in tenths of a hertz
frequencyBandsTenths ==
  <<
     0, 200, 250, 315, 400, 500, 630, 800, 1000, 1250, 1600, 2000,
     2500, 3150, 4000, 5000, 6300, 8000, 10000, 12500, 16000, 20000, 25000, 31500,
     40000, 50000, 63000, 80000, 90000, 100000, 125000, 150000, 200000, 251000
  >>

frequencyBands(j) == F(At(frequencyBandsTenths, j), 10)

\* weightingCurves, in tenths of a decibel
weightingCurvesTenths ==
  [name \in {"EMPTY", "CUSTOM", "A", "B", "C", "D"} |->
     CASE name = "EMPTY" -> [j \in 1..curveSize |-> 0]
       [] name = "CUSTOM" ->
       <<
          -758, -701, -608, -521, -442, -375, -313, -256, -209, -165, -126, -96,
          -70, -47, -30, -18, -8, -2, 0, 5, 16, 32, 54, 78,
          81, 53, -24, -111, -128, -122, -74, -178, -178, -178
       >>
       [] name = "A" ->
       <<
          -1486, -504, -448, -395, -345, -303, -262, -224, -191, -162, -132, -108,
          -87, -66, -48, -32, -19, -8, 0, 6, 10, 12, 13, 12,
          10, 6, -1, -11, -18, -25, -43, -60, -93, -124
       >>
       [] name = "B" ->
       <<
          -964, -242, -205, -171, -141, -116, -94, -73, -56, -42, -29, -20,
          -14, -9, -5, -3, -1, 0, 0, 0, 0, -1, -2, -4,
          -7, -12, -19, -29, -36, -43, -61, -78, -112, -142
       >>
       [] name = "C" ->
       <<
          -525, -62, -44, -30, -20, -13, -8, -5, -3, -2, -1, 0,
          0, 0, 0, 0, 0, 0, 0, 0, -1, -2, -3, -5,
          -8, -13, -20, -30, -37, -44, -62, -79, -113, -143
       >>
       [] name = "D" ->
       <<
          -466, -206, -187, -167, -147, -128, -109, -89, -72, -56, -39, -26,
          -16, -8, -4, -3, -5, -6, 0, 19, 50, 79, 103, 115,
          111, 96, 76, 55, 44, 34, 14, -2, -27, -47
       >>
  ]

weightingCurves(name) == [j \in 1..curveSize |-> F(weightingCurvesTenths[name][j], 10)]

availableWeightingTypes == DOMAIN weightingCurvesTenths

\* strings.ToUpper on the weighting type names the model draws
ToUpper(s) ==
  CASE s = "custom" -> "CUSTOM"
    [] s = "a" -> "A"
    [] OTHER -> s

\* 1000 * 10^(k/20) for k = 0..20, rounded to the nearest integer
Pow10Table ==
  <<1000, 1122, 1259, 1413, 1585, 1778, 1995, 2239, 2512, 2818, 3162,
    3548, 3981, 4467, 5012, 5623, 6310, 7079, 7943, 8913, 10000>>

RECURSIVE IntPow10(_)
IntPow10(q) == IF q = 0 THEN 1 ELSE 10 * IntPow10(q - 1)

\* math.Pow(10, x) in fixed point with three decimals: 10^x = 10^q * 10^f
\* with q = floor(x) and f in [0, 1); 10^f is read from Pow10Table and
\* interpolated linearly between its entries, and the product is truncated
\* to a multiple of 1/1000.  Exact at x = 0, positive and finite wherever
\* float64 is, and monotone in x.
Pow10(x) ==
  LET q == Floor(x)
      f == FSub(x, FInt(q))
      k == Floor(FMul(f, FInt(20)))
      r == FSub(FMul(f, FInt(20)), FInt(k))
      lo == At(Pow10Table, k)
      hi == At(Pow10Table, k + 1)
      m == lo + Floor(FMul(r, FInt(hi - lo)))
  IN IF q >= 0 THEN F(m * IntPow10(q), 1000)
     ELSE IF q < -4 THEN FInt(0)
     ELSE F(m \div IntPow10(-q), 1000)

\* computeSpectrumWeights: the loop over the bins from bin i on, with the
\* curve cursor j carried from bin to bin
RECURSIVE WeightsFrom(_, _, _, _, _)
WeightsFrom(i, j0, frameSize, sampleRate, curve) ==
  IF i > frameSize \div 2 THEN <<>>
  ELSE LET frequency == FMul(FDiv(FInt(i), FInt(frameSize)), sampleRate)
           js == {jj \in j0..(curveSize - 1) :
                    jj = curveSize - 1 \/ ~FGt(frequency, frequencyBands(jj))}
           j == CHOOSE jj \in js : \A o \in js : jj <= o
           a0 == At(curve, j - 1)
           a1 == At(curve, j)
           f0 == frequencyBands(j - 1)
           f1 == frequencyBands(j)
           weight ==
             IF FEq(f0, f1) THEN a0
             ELSE IF FEq(f0, FInt(0))
                  THEN FAdd(FMul(FDiv(FSub(a1, a0), f1), frequency), a0)
             ELSE FAdd(FMul(FDiv(FSub(a1, a0), FSub(f1, f0)), frequency),
                       FSub(a0, FDiv(FSub(a1, a0), FSub(FDiv(f1, f0), FInt(1)))))
       IN <<Pow10(FDiv(weight, FInt(20)))>>
            \o WeightsFrom(i + 1, j, frameSize, sampleRate, curve)

computeSpectrumWeights(frameSize, sampleRate, curve) ==
  WeightsFrom(0, 1, frameSize, sampleRate, curve)

\* ------------------------------------------------------------------------
\* yinfft.go: New
\* ------------------------------------------------------------------------

\* a nil error
Nil == "nil"

\* a nil *PitchDetector, and a value not yet set
NilRef == [nil |-> TRUE]

ErrFrequencyRange == "maxFrequency <= minFrequency or out of range"

ErrWeightingType == "invalid 'weightingType'"

ErrFrameSize == "invalid frame size"

ErrSpectrumSize == "invalid spectrum size"

ErrNotImplemented == "interpolation is not yet implemented"

\* maxPeriodSamples as New derives it
MaxPeriodSamples(params) ==
  Floor(FMin(FInt(Ceil(FDiv(params.SampleRate, params.MinFrequency))),
             FInt(params.FrameSize \div 2)))

\* minPeriodSamples as New derives it
MinPeriodSamples(params) ==
  Floor(FMin(FInt(Floor(FDiv(params.SampleRate, params.MaxFrequency))),
             FInt(params.FrameSize \div 2)))

\* New(params): the pair of the detector (or NilRef) and the error (or Nil)
New(params) ==
  LET maxPeriodSamples == MaxPeriodSamples(params)
      minPeriodSamples == MinPeriodSamples(params)
  IN IF maxPeriodSamples <= minPeriodSamples
     THEN [pd |-> NilRef, err |-> ErrFrequencyRange]
     ELSE IF ToUpper(params.WeightingType) \notin availableWeightingTypes
     THEN [pd |-> NilRef, err |-> ErrWeightingType]
     ELSE [pd |-> [params |-> params,
                   weights |-> computeSpectrumWeights(
                                 params.FrameSize, params.SampleRate,
                                 weightingCurves(ToUpper(params.WeightingType))),
                   minPeriodSamples |-> minPeriodSamples,
                   maxPeriodSamples |-> maxPeriodSamples],
           err |-> Nil]

\* ------------------------------------------------------------------------
\* yinfft.go: the detection pipeline
\* ------------------------------------------------------------------------

\* applyHannWindow: the frame after the in-place multiplication
applyHannWindow(frame) ==
  Slice([i \in 1..Len(frame) |->
           FMul(frame[i],
                FMul(F(1, 2), FSub(FInt(1), Cos2Pi(i - 1, Len(frame) - 1))))])

\* fft.FFTReal of the external FFT library: the discrete Fourier transform
\* X[k] = sum_n x[n] * exp(-2*pi*i*k*n/N), for the lengths N in {1, 2, 4}
\* whose twiddle factors are rational
FFTReal(x) ==
  LET N == Len(x)
  IN Slice([k1 \in 1..N |->
        [re |-> FSum([n1 \in 1..N |->
                        FMul(x[n1], Cos2Pi((k1 - 1) * (n1 - 1), N))], N),
         im |-> FSum([n1 \in 1..N |->
                        FNeg(FMul(x[n1], Sin2Pi((k1 - 1) * (n1 - 1), N)))], N)]])

\* cmplx.Abs and the magnitude of cartesianToPolar
CAbs(c) == Sqrt(FAdd(FMul(c.re, c.re), FMul(c.im, c.im)))

\* math.Atan2(y, x), kept as the direction it is the angle of
Atan2(y, x) == [y |-> y, x |-> x]

\* cartesianToPolar: the magnitudes
PolarMagnitude(complex) == Slice([i \in 1..Len(complex) |-> CAbs(complex[i])])

\* cartesianToPolar: the phases
PolarPhase(complex) ==
  Slice([i \in 1..Len(complex) |-> Atan2(complex[i].im, complex[i].re)])

cartesianToPolar(complex) ==
  [magnitude |-> PolarMagnitude(complex), phase |-> PolarPhase(complex)]

\* magnitude * math.Cos(phase) for the magnitude Sqrt(x*x + y*y) and the
\* phase Atan2(y, x) of one complex number: cos(atan2(y, x)) is
\* x / sqrt(x*x + y*y), so the product is x; at x = y = 0 the magnitude is 0
\* and the product is 0, which is x again
MagCosPhase(magnitude, phase) == phase.x

\* prepareSpectrum after the windowing: the magnitudes of the first
\* len/2+1 bins of the transform of the windowed frame
MagnitudeSpectrum(windowed) ==
  LET complexSpectrum == FFTReal(windowed)
  IN Slice([i \in 1..(Len(complexSpectrum) \div 2 + 1) |->
              CAbs(complexSpectrum[i])])

\* prepareSpectrum: the caller's frame after windowing, and the spectrum
prepareSpectrum(frame) ==
  LET windowed == applyHannWindow(frame)
  IN [frame |-> windowed, spectrum |-> MagnitudeSpectrum(windowed)]

Result(frequency, confidence, err) ==
  [frequency |-> frequency, confidence |-> confidence, err |-> err]

NoPitch == Result(FInt(0), FInt(0), Nil)

\* the weighted, mirrored squared magnitudes sqrMag[0..FrameSize)
SqrMag(pd, spectrum) ==
  LET N == pd.params.FrameSize
      half(i) == FMul(Pow2(At(spectrum, i)), At(pd.weights, i))
  IN Slice([i1 \in 1..N |->
        LET i == i1 - 1
        IN IF i < Len(spectrum) THEN half(i)
           ELSE IF N - i < Len(spectrum) THEN half(N - i)
           ELSE FInt(0)])

\* sum: twice the sum of sqrMag[1 .. len(spectrum)-1]
SqrMagSum(sqrMag, yinLen) ==
  FMul(FSum([i \in 1..(yinLen - 1) |-> At(sqrMag, i)], yinLen - 1), FInt(2))

\* the cumulative mean normalised difference yin[0..yinLen), with the running
\* sum tmp carried along
RECURSIVE YinFrom(_, _, _, _, _, _)
YinFrom(i, tmp, sum, magnitude, phase, yinLen) ==
  IF i >= yinLen THEN <<>>
  ELSE LET raw == FSub(sum, MagCosPhase(At(magnitude, i), At(phase, i)))
           tmp2 == FAdd(tmp, raw)
       IN <<FMul(raw, FDiv(FInt(i), tmp2))>>
            \o YinFrom(i + 1, tmp2, sum, magnitude, phase, yinLen)

\* the yin array from the transform of sqrMag
YinOf(complex, sum, yinLen) ==
  <<FInt(1)>> \o YinFrom(1, FInt(0), sum, PolarMagnitude(complex), PolarPhase(complex),
                         yinLen)

Yin(sqrMag, sum, yinLen) == YinOf(FFTReal(sqrMag), sum, yinLen)

\* slices.Min: NaN if any element is NaN
RECURSIVE SlicesMin(_, _)
SlicesMin(s, n) == IF n = 1 THEN s[1] ELSE FMin(SlicesMin(s, n - 1), s[n])

\* the direct scan of DetectFromSpectrum: tau and yinMin after index i
RECURSIVE ScanFrom(_, _, _, _, _)
ScanFrom(i, tau, yinMin, yin, maxPeriodSamples) ==
  IF i > maxPeriodSamples THEN [tau |-> tau, yinMin |-> yinMin]
  ELSE IF FLt(At(yin, i), yinMin)
       THEN ScanFrom(i + 1, i, At(yin, i), yin, maxPeriodSamples)
       ELSE ScanFrom(i + 1, tau, yinMin, yin, maxPeriodSamples)

\* DetectFromSpectrum from the tau selection on
SelectTau(pd, yin) ==
  IF pd.params.ShouldInterpolate
  THEN Result(FInt(0), FInt(0), ErrNotImplemented)
  ELSE LET r == ScanFrom(pd.minPeriodSamples, 0, At(yin, pd.minPeriodSamples),
                         yin, pd.maxPeriodSamples)
       IN IF r.tau # 0
          THEN Result(FDiv(pd.params.SampleRate, FInt(r.tau)),
                      FSub(FInt(1), r.yinMin), Nil)
          ELSE NoPitch

\* DetectFromSpectrum from the tolerance check on
AfterYin(pd, yin) ==
  IF FLt(pd.params.Tolerance, FInt(1))
     /\ FGe(SlicesMin(yin, Len(yin)), pd.params.Tolerance)
  THEN NoPitch
  ELSE SelectTau(pd, yin)

\* DetectFromSpectrum without the zero-energy return
DetectFromSpectrum_NoSilenceCheck(pd, spectrum) ==
  LET yinLen == pd.params.FrameSize \div 2 + 1
  IN IF Len(spectrum) # yinLen
     THEN Result(FInt(0), FInt(0), ErrSpectrumSize)
     ELSE LET sqrMag == SqrMag(pd, spectrum)
              sum == SqrMagSum(sqrMag, yinLen)
          IN AfterYin(pd, Yin(sqrMag, sum, yinLen))

DetectFromSpectrum(pd, spectrum) ==
  LET yinLen == pd.params.FrameSize \div 2 + 1
  IN IF Len(spectrum) # yinLen
     THEN Result(FInt(0), FInt(0), ErrSpectrumSize)
     ELSE LET sqrMag == SqrMag(pd, spectrum)
              sum == SqrMagSum(sqrMag, yinLen)
          IN IF FEq(sum, FInt(0)) THEN NoPitch
             ELSE AfterYin(pd, Yin(sqrMag, sum, yinLen))

\* DetectFromFrame with the frame windowed before its length is checked
DetectFromFrame_WindowFirst(pd, frame) ==
  IF Len(frame) # pd.params.FrameSize
  THEN [res |-> Result(FInt(0), FInt(0), ErrFrameSize), frame |-> applyHannWindow(frame)]
  ELSE [res |-> DetectFromSpectrum(pd, prepareSpectrum(frame).spectrum),
        frame |-> prepareSpectrum(frame).frame]

\* DetectFromFrame: the result and the caller's frame buffer after the call
DetectFromFrame(pd, frame) ==
  IF Len(frame) # pd.params.FrameSize
  THEN [res |-> Result(FInt(0), FInt(0), ErrFrameSize), frame |-> frame]
  ELSE LET p == prepareSpectrum(frame)
       IN [res |-> DetectFromSpectrum(pd, p.spectrum), frame |-> p.frame]

\* ------------------------------------------------------------------------
\* internal/peakdetector: New and DetectPeaks
\* ------------------------------------------------------------------------

PeakOrderByPosition == "position"

PeakOrderByAmplitude == "amplitude"

ErrPositionRange == "MinPosition must be less than MaxPosition"

ErrOrderBy == "invalid OrderBy value"

ErrInputLength == "input length should be >= 2"

Peak(position, magnitude) == [position |-> position, magnitude |-> magnitude]

\* peakdetector.New
NewPeakDetector(p) ==
  IF FGe(p.MinPosition, p.MaxPosition)
  THEN [pd |-> NilRef, err |-> ErrPositionRange]
  ELSE IF p.OrderBy # PeakOrderByPosition /\ p.OrderBy # PeakOrderByAmplitude
       THEN [pd |-> NilRef, err |-> ErrOrderBy]
       ELSE [pd |-> [params |-> p], err |-> Nil]

interpolate(leftVal, middleVal, rightVal, currentBin) ==
  LET deltaX == FMul(F(1, 2),
                     FDiv(FSub(leftVal, rightVal),
                          FAdd(FSub(leftVal, FMul(FInt(2), middleVal)), rightVal)))
  IN [resultVal |-> FSub(middleVal, FMul(FMul(F(1, 4), FSub(leftVal, rightVal)), deltaX)),
      resultBin |-> FAdd(FInt(currentBin), deltaX)]

\* the comparison function of sortPeaksByMagnitude: magnitude descending,
\* then position ascending
CompareByMagnitude(a, b) ==
  IF ~FEq(a.magnitude, b.magnitude)
  THEN FCmp(b.magnitude, a.magnitude)
  ELSE FCmp(a.position, b.position)

\* the comparison function of sortPeaksByPosition: position ascending, then
\* magnitude descending
CompareByPosition(a, b) ==
  IF ~FEq(a.position, b.position)
  THEN FCmp(a.position, b.position)
  ELSE FCmp(b.magnitude, a.magnitude)

Compare(a, b, byMagnitude) ==
  IF byMagnitude THEN CompareByMagnitude(a, b) ELSE CompareByPosition(a, b)

\* slices.SortFunc: peaks that compare equal are equal peaks, so the sorted
\* slice is unique
RECURSIVE InsertSorted(_, _, _)
InsertSorted(sorted, p, byMagnitude) ==
  IF sorted = <<>> THEN <<p>>
  ELSE IF Compare(p, Head(sorted), byMagnitude) <= 0 THEN <<p>> \o sorted
  ELSE <<Head(sorted)>> \o InsertSorted(Tail(sorted), p, byMagnitude)

RECURSIVE SortFunc(_, _)
SortFunc(peaks, byMagnitude) ==
  IF peaks = <<>> THEN <<>>
  ELSE InsertSorted(SortFunc(Tail(peaks), byMagnitude), Head(peaks), byMagnitude)

sortPeaksByMagnitude(peaks) == SortFunc(peaks, TRUE)

sortPeaksByPosition(peaks) == SortFunc(peaks, FALSE)

\* the outcome of a stretch of DetectPeaks: the peaks so far, or the
\* run-time panic of an index out of range
Found(peaks) == [peaks |-> peaks, panic |-> FALSE]

IndexOutOfRange == [peaks |-> <<>>, panic |-> TRUE]

\* for i+1 < len(input)-1 && input[i] >= input[i+1] { i++ }
RECURSIVE SkipNonIncreasing(_, _)
SkipNonIncreasing(input, i) ==
  IF i + 1 < Len(input) - 1 /\ FGe(At(input, i), At(input, i + 1))
  THEN SkipNonIncreasing(input, i + 1)
  ELSE i

\* for i+1 < len(input)-1 && input[i] < input[i+1] { i++ }
RECURSIVE SkipIncreasing(_, _)
SkipIncreasing(input, i) ==
  IF i + 1 < Len(input) - 1 /\ FLt(At(input, i), At(input, i + 1))
  THEN SkipIncreasing(input, i + 1)
  ELSE i

\* for j+1 < len(input)-1 && input[j] == input[j+1] { j++ }
RECURSIVE SkipPlateau(_, _)
SkipPlateau(input, j) ==
  IF j + 1 < Len(input) - 1 /\ FEq(At(input, j), At(input, j + 1))
  THEN SkipPlateau(input, j + 1)
  ELSE j

\* the value and the bin of the peak at the sample before the last
TrailingResult(pd, input, i) ==
  IF pd.params.ShouldInterpolate
  THEN interpolate(At(input, i - 1), At(input, i), At(input, i + 1), i)
  ELSE [resultVal |-> At(input, i), resultBin |-> FInt(i)]

\* peaks = append(peaks, peak{position: resultBin * scale, magnitude: resultVal})
AppendResult(peaks, result, scale) ==
  Append(peaks, Peak(FMul(result.resultBin, scale), result.resultVal))

\* the check at the end of the scan, of the sample before the last
TrailingPeak(pd, input, scale, i, peaks) ==
  IF i # Len(input) - 2 THEN Found(peaks)
  ELSE IF i - 1 < 0 THEN IndexOutOfRange
  ELSE IF /\ FLt(At(input, i - 1), At(input, i))
          /\ FLt(At(input, i + 1), At(input, i))
          /\ FGt(At(input, i), pd.params.Threshold)
       THEN Found(AppendResult(peaks, TrailingResult(pd, input, i), scale))
       ELSE Found(peaks)

\* the value and the bin of a peak inside the input: a plateau from i to j,
\* or the single sample j = i
InteriorResult(pd, input, i, j) ==
  IF j # i
  THEN [resultVal |-> At(input, i),
        resultBin |-> IF pd.params.ShouldInterpolate
                      THEN FMul(FInt(i + j), F(1, 2))
                      ELSE FInt(i)]
  ELSE IF pd.params.ShouldInterpolate
       THEN interpolate(At(input, j - 1), At(input, j), At(input, j + 1), j)
       ELSE [resultVal |-> At(input, j), resultBin |-> FInt(j)]

\* the scan loop, from index i0 with the peaks found so far
RECURSIVE ScanLoop(_, _, _, _, _)

\* i = j, and the end of the loop
AfterPlateau(pd, input, scale, j, peaks) ==
  IF j + 1 >= Len(input) - 1
  THEN TrailingPeak(pd, input, scale, j, peaks)
  ELSE ScanLoop(pd, input, scale, j, peaks)

\* the check of the peak against MaxPosition, which ends the scan
InteriorPeak(pd, input, scale, j, peaks, result) ==
  IF FGt(FMul(result.resultBin, scale), pd.params.MaxPosition)
  THEN Found(peaks)
  ELSE AfterPlateau(pd, input, scale, j, AppendResult(peaks, result, scale))

\* one round of the scan loop, at the plateau from i to j
ScanPlateau(pd, input, scale, i, j, peaks) ==
  IF /\ j + 1 < Len(input) - 1
     /\ FLt(At(input, j + 1), At(input, j))
     /\ FGt(At(input, j), pd.params.Threshold)
  THEN IF j = i /\ pd.params.ShouldInterpolate /\ j - 1 < 0
       THEN IndexOutOfRange
       ELSE InteriorPeak(pd, input, scale, j, peaks, InteriorResult(pd, input, i, j))
  ELSE AfterPlateau(pd, input, scale, j, peaks)

\* one round of the scan loop, at the top i of a rise
ScanRise(pd, input, scale, i, peaks) ==
  ScanPlateau(pd, input, scale, i, SkipPlateau(input, i), peaks)

ScanLoop(pd, input, scale, i0, peaks) ==
  ScanRise(pd, input, scale, SkipIncreasing(input, SkipNonIncreasing(input, i0)), peaks)

\* scale := Range / float64(len(input)-1)
Scale(pd, input) == FDiv(pd.params.Range, FInt(Len(input) - 1))

\* i := max(0, int(math.Ceil(MinPosition/scale)))
ScanStartAt(c) == IF c > 0 THEN c ELSE 0

ScanStart(pd, input) == ScanStartAt(Ceil(FDiv(pd.params.MinPosition, Scale(pd, input))))

\* the peak at the start of the scan
StartPeak(pd, input, scale, i) ==
  IF /\ i + 1 < Len(input)
     /\ FGt(At(input, i), At(input, i + 1))
     /\ FGt(At(input, i), pd.params.Threshold)
  THEN <<Peak(FMul(FInt(i), scale), At(input, i))>>
  ELSE <<>>

\* whether the last sample is a peak: pos is MaxPosition / scale
IsLastSamplePeak(pd, input, pos) ==
  /\ FLt(FInt(Len(input) - 2), pos)
  /\ FLe(pos, FInt(Len(input) - 1))
  /\ FGt(At(input, Len(input) - 1), At(input, Len(input) - 2))
  /\ FGt(At(input, Len(input) - 1), pd.params.Threshold)

\* the peak at the last sample, after the scan
LastSamplePeak(pd, input, scale, scanned) ==
  IF scanned.panic THEN scanned
  ELSE IF IsLastSamplePeak(pd, input, FDiv(pd.params.MaxPosition, scale))
       THEN Found(Append(scanned.peaks,
                         Peak(FMul(FInt(Len(input) - 1), scale),
                              At(input, Len(input) - 1))))
       ELSE scanned

\* the scan from index i: the peak at the start, the loop, the last sample
ScanInput(pd, input, scale, i) ==
  LastSamplePeak(pd, input, scale,
                 ScanLoop(pd, input, scale, i, StartPeak(pd, input, scale, i)))

\* the peaks DetectPeaks finds, before the pruning and the ordering
Candidates(pd, input) ==
  ScanInput(pd, input, Scale(pd, input), ScanStart(pd, input))

\* slices.Delete of every index in deletedPeaks, from the highest down:
\* the peaks at the other indices, in their order
RECURSIVE DeleteAll(_, _, _)
DeleteAll(peaks, deletedPeaks, l) ==
  IF l >= Len(peaks) THEN <<>>
  ELSE (IF l \in deletedPeaks THEN <<>> ELSE <<At(peaks, l)>>)
         \o DeleteAll(peaks, deletedPeaks, l + 1)

\* for k := range n { ... }: the bound n is len(peaks)-1 as the loop began
RECURSIVE PruneFrom(_, _, _, _)
PruneFrom(pd, peaks, k, n) ==
  IF k >= n THEN Found(peaks)
  ELSE IF k >= Len(peaks) THEN IndexOutOfRange
  ELSE LET minPos == FSub(At(peaks, k).position, pd.params.MinPeakDistance)
           maxPos == FAdd(At(peaks, k).position, pd.params.MinPeakDistance)
           deletedPeaks == {l \in (k + 1)..(Len(peaks) - 1) :
                              /\ FGt(At(peaks, l).position, minPos)
                              /\ FLt(At(peaks, l).position, maxPos)}
       IN PruneFrom(pd, DeleteAll(peaks, deletedPeaks, 0), k + 1, n)

\* whether the pruning by MinPeakDistance runs
ShouldPrune(pd, peaks) == FGt(pd.params.MinPeakDistance, FInt(0)) /\ Len(peaks) > 1

\* the pruning loop over the peaks sorted by magnitude
PruneSorted(pd, sorted) == PruneFrom(pd, sorted, 0, Len(sorted) - 1)

\* the peaks after the pruning, still by magnitude
Prune(pd, peaks) == PruneSorted(pd, sortPeaksByMagnitude(peaks))

\* the ordering after the pruning
OrderPruned(pd, pruned) ==
  IF pruned.panic THEN pruned
  ELSE IF pd.params.OrderBy = PeakOrderByPosition
       THEN Found(sortPeaksByPosition(pruned.peaks))
       ELSE pruned

\* the pruning and the ordering of the peaks found
Arrange(pd, peaks) ==
  IF ShouldPrune(pd, peaks)
  THEN OrderPruned(pd, Prune(pd, peaks))
  ELSE IF pd.params.OrderBy = PeakOrderByAmplitude
       THEN Found(sortPeaksByMagnitude(peaks))
       ELSE Found(peaks)

Panicked == [status |-> "panic", positions |-> <<>>, amplitudes |-> <<>>, err |-> Nil]

\* the first wantPeaks peaks, as positions and amplitudes
Returned(peaks, wantPeaks) ==
  [status |-> "returned",
   positions |-> Slice([i \in 1..wantPeaks |-> peaks[i].position]),
   amplitudes |-> Slice([i \in 1..wantPeaks |-> peaks[i].magnitude]),
   err |-> Nil]

\* wantPeaks := min(pd.params.MaxPeaks, len(peaks)), and the copy
Truncate(pd, arranged) ==
  IF arranged.panic THEN Panicked
  ELSE Returned(arranged.peaks,
                IF pd.params.MaxPeaks < Len(arranged.peaks)
                THEN pd.params.MaxPeaks
                ELSE Len(arranged.peaks))

\* DetectPeaks after the scan
AfterScan(pd, found) ==
  IF found.panic THEN Panicked ELSE Truncate(pd, Arrange(pd, found.peaks))

\* PeakDetector.DetectPeaks
DetectPeaks(pd, input) ==
  IF Len(input) < 2
  THEN [status |-> "returned", positions |-> <<>>, amplitudes |-> <<>>,
        err |-> ErrInputLength]
  ELSE AfterScan(pd, Candidates(pd, input))

\* ------------------------------------------------------------------------
\* The sequential use of one detector: New once, then any number of
\* DetectFromFrame and DetectFromSpectrum calls, one at a time
\* ------------------------------------------------------------------------

\* frame samples are the integers -1..MaxSample
MaxSample == 1

\* spectrum magnitudes are the integers 0..MaxMagnitude
MaxMagnitude == 2

\* the frame sizes whose transforms and Hann windows are rational
FrameSizes == {2, 4}

SampleRates == {4000}

Frequencies == {2000, 3000, 5000}

Tolerances == {F(1, 2), FInt(1)}

WeightingTypes == {"EMPTY", "CUSTOM", "A", "B", "C", "D", "custom", "X"}

ParamsSet ==
  [FrameSize : FrameSizes,
   SampleRate : {FInt(r) : r \in SampleRates},
   ShouldInterpolate : BOOLEAN,
   Tolerance : Tolerances,
   WeightingType : WeightingTypes,
   MinFrequency : {FInt(f) : f \in Frequencies},
   MaxFrequency : {FInt(f) : f \in Frequencies}]

Samples == {FInt(v) : v \in (-1)..MaxSample}

Magnitudes == {Mag(m) : m \in 0..MaxMagnitude}

\* the sequences of length l over S whose elements are all the same
Constant(l, S) == {[i \in 1..l |-> v] : v \in S}

\* the frames a caller passes to a detector of frame size n: every frame of
\* the right length, every frame one sample short, and the constant frames
\* one sample long
Frames(n) == [1..n -> Samples] \cup [1..(n - 1) -> Samples] \cup Constant(n + 1, Samples)

\* the spectra a caller passes to a detector of frame size n, likewise
Spectra(n) ==
  [1..(n \div 2 + 1) -> Magnitudes] \cup [1..(n \div 2) -> Magnitudes]
    \cup Constant(n \div 2 + 2, Magnitudes)

VARIABLES
  params,   \* the Params given to New
  pd,       \* the detector New returned, or NilRef
  err,      \* the error New returned, or Nil
  op,       \* where the caller is: "start", "ready" (holding a detector, no
            \* call in progress), "failed" (New returned an error), or the
            \* name of the Detect call that has just returned
  arg,      \* the argument of the last Detect call, as the caller passed it
  buf,      \* the caller's frame buffer after the last DetectFromFrame call
  res,      \* the result of the last Detect call
  calls,    \* concurrent use: each caller's call in progress
  scratch,  \* concurrent use: the sqrMag arrays, by the owner of each
  peakDetector,  \* the peak detector peakdetector.New returned, or NilRef
  peakErr,       \* the error peakdetector.New returned
  peakOp,        \* the position of the peak detector's caller
  input,         \* the input of the last DetectPeaks call
  output         \* what the last DetectPeaks call did

yinVars == <<params, pd, err, op, arg, buf, res>>

concVars == <<calls, scratch>>

peakVars == <<peakDetector, peakErr, peakOp, input, output>>

vars == <<params, pd, err, op, arg, buf, res, calls, scratch,
          peakDetector, peakErr, peakOp, input, output>>

\* the peak detector is not in use
NoPeakDetector ==
  /\ peakDetector = NilRef
  /\ peakErr = Nil
  /\ peakOp = "unused"
  /\ input = <<>>
  /\ output = NilRef

Init ==
  /\ params = NilRef
  /\ pd = NilRef
  /\ err = Nil
  /\ op = "start"
  /\ arg = <<>>
  /\ buf = <<>>
  /\ res = NilRef
  /\ calls = <<>>
  /\ scratch = <<>>
  /\ NoPeakDetector

NewCall ==
  /\ op = "start"
  /\ \E p \in ParamsSet :
       LET r == New(p)
       IN /\ params' = p
          /\ pd' = r.pd
          /\ err' = r.err
          /\ op' = IF r.err = Nil THEN "ready" ELSE "failed"
  /\ UNCHANGED <<arg, buf, res, concVars, peakVars>>

DetectFromFrameCall ==
  /\ op = "ready"
  /\ \E frame \in Frames(pd.params.FrameSize) :
       LET r == DetectFromFrame(pd, frame)
       IN /\ arg' = frame
          /\ buf' = r.frame
          /\ res' = r.res
  /\ op' = "DetectFromFrame"
  /\ UNCHANGED <<params, pd, err, concVars, peakVars>>

DetectFromSpectrumCall ==
  /\ op = "ready"
  /\ \E spectrum \in Spectra(pd.params.FrameSize) :
       /\ arg' = spectrum
       /\ res' = DetectFromSpectrum(pd, spectrum)
  /\ buf' = <<>>
  /\ op' = "DetectFromSpectrum"
  /\ UNCHANGED <<params, pd, err, concVars, peakVars>>

\* the caller takes the result of a Detect call and is ready for the next one
Return ==
  /\ op \in {"DetectFromFrame", "DetectFromSpectrum"}
  /\ op' = "ready"
  /\ arg' = <<>>
  /\ buf' = <<>>
  /\ res' = NilRef
  /\ UNCHANGED <<params, pd, err, concVars, peakVars>>

Next == NewCall \/ DetectFromFrameCall \/ DetectFromSpectrumCall \/ Return

Spec == Init /\ [][Next]_vars

\* ------------------------------------------------------------------------
\* The concurrent use of one detector: two callers, each with a buffer of its
\* own, run one Detect call each; the calls interleave statement block by
\* statement block
\* ------------------------------------------------------------------------

Callers == {1, 2}

\* one sqrMag array kept with the detector and reused by every call
SqrMagOwner_Shared(c) == 0

\* the owner of the sqrMag array a call works on: DetectFromSpectrum makes a
\* new array in every call, so each call owns its own
SqrMagOwner(c) == c

\* the detectors the callers share
ConcDetectors ==
  {New(p).pd : p \in {q \in ParamsSet :
                        /\ q.FrameSize = 4
                        /\ q.WeightingType = "EMPTY"
                        /\ q.Tolerance = FInt(1)
                        /\ q.MinFrequency = FInt(2000)
                        /\ q.MaxFrequency = FInt(3000)}}

\* the frames of the concurrent callers: the second sample varies, and one
\* frame is a sample short
ConcFrames(n) ==
  {Slice([i \in 1..n |-> IF i = 2 THEN v ELSE IF i = 3 THEN FInt(-1) ELSE FInt(1)]) :
     v \in Samples}
    \cup {Slice([i \in 1..(n - 1) |-> FInt(1)])}

\* the spectra of the concurrent callers: the last magnitude varies, and one
\* spectrum is a magnitude short
ConcSpectra(n) ==
  {Slice([i \in 1..(n \div 2 + 1) |-> IF i = n \div 2 + 1 THEN m ELSE Mag(i - 1)]) :
     m \in Magnitudes}
    \cup {Slice([i \in 1..(n \div 2) |-> Mag(1)])}

IdleCall ==
  [pc |-> "idle", kind |-> "none", arg |-> <<>>, buf |-> <<>>, spectrum |-> <<>>,
   sum |-> FInt(0), yin |-> <<>>, res |-> NilRef, overlapped |-> FALSE]

ConcInit ==
  /\ pd \in ConcDetectors
  /\ params = pd.params
  /\ err = Nil
  /\ op = "concurrent"
  /\ arg = <<>>
  /\ buf = <<>>
  /\ res = NilRef
  /\ calls = [c \in Callers |-> IdleCall]
  /\ scratch = [o \in {0} \cup Callers |-> <<>>]
  /\ NoPeakDetector

\* caller c calls DetectFromFrame with a frame buffer of its own
BeginDetectFromFrame(c) ==
  /\ calls[c].pc = "idle"
  /\ \E frame \in ConcFrames(pd.params.FrameSize) :
       calls' = [calls EXCEPT ![c].pc = "frame.len", ![c].kind = "frame",
                              ![c].arg = frame, ![c].buf = frame]
  /\ UNCHANGED <<yinVars, scratch, peakVars>>

\* DetectFromFrame: the length check
CheckFrameLen(c) ==
  /\ calls[c].pc = "frame.len"
  /\ calls' = IF Len(calls[c].buf) # pd.params.FrameSize
              THEN [calls EXCEPT ![c].pc = "done",
                                 ![c].res = Result(FInt(0), FInt(0), ErrFrameSize)]
              ELSE [calls EXCEPT ![c].pc = "window"]
  /\ UNCHANGED <<yinVars, scratch, peakVars>>

\* prepareSpectrum: applyHannWindow writes the caller's buffer in place
Window(c) ==
  /\ calls[c].pc = "window"
  /\ calls' = [calls EXCEPT ![c].pc = "fft", ![c].buf = applyHannWindow(calls[c].buf)]
  /\ UNCHANGED <<yinVars, scratch, peakVars>>

\* prepareSpectrum: the transform of the windowed buffer into a new spectrum
Transform(c) ==
  /\ calls[c].pc = "fft"
  /\ calls' = [calls EXCEPT ![c].pc = "spectrum.len",
                            ![c].spectrum = MagnitudeSpectrum(calls[c].buf)]
  /\ UNCHANGED <<yinVars, scratch, peakVars>>

\* caller c calls DetectFromSpectrum with a spectrum of its own
BeginDetectFromSpectrum(c) ==
  /\ calls[c].pc = "idle"
  /\ \E spectrum \in ConcSpectra(pd.params.FrameSize) :
       calls' = [calls EXCEPT ![c].pc = "spectrum.len", ![c].kind = "spectrum",
                              ![c].arg = spectrum, ![c].spectrum = spectrum]
  /\ UNCHANGED <<yinVars, scratch, peakVars>>

\* DetectFromSpectrum: the length check
CheckSpectrumLen(c) ==
  /\ calls[c].pc = "spectrum.len"
  /\ calls' = IF Len(calls[c].spectrum) # pd.params.FrameSize \div 2 + 1
              THEN [calls EXCEPT ![c].pc = "done",
                                 ![c].res = Result(FInt(0), FInt(0), ErrSpectrumSize)]
              ELSE [calls EXCEPT ![c].pc = "sqrMag"]
  /\ UNCHANGED <<yinVars, scratch, peakVars>>

\* DetectFromSpectrum: sqrMag and sum, and the zero-energy return; a call
\* that is between this block and the next notes that another call ran it
Weigh(c) ==
  /\ calls[c].pc = "sqrMag"
  /\ LET sqrMag == SqrMag(pd, calls[c].spectrum)
         sum == SqrMagSum(sqrMag, pd.params.FrameSize \div 2 + 1)
         noted == [o \in Callers |->
                     IF o # c /\ calls[o].pc = "yin"
                     THEN [calls[o] EXCEPT !.overlapped = TRUE]
                     ELSE calls[o]]
     IN /\ scratch' = [scratch EXCEPT ![SqrMagOwner(c)] = sqrMag]
        /\ calls' = IF FEq(sum, FInt(0))
                    THEN [noted EXCEPT ![c].pc = "done", ![c].sum = sum,
                                       ![c].res = NoPitch]
                    ELSE [noted EXCEPT ![c].pc = "yin", ![c].sum = sum]
  /\ UNCHANGED <<yinVars, peakVars>>

\* DetectFromSpectrum: the transform of sqrMag and the yin array
ComputeYin(c) ==
  /\ calls[c].pc = "yin"
  /\ calls' = [calls EXCEPT ![c].pc = "tau",
                            ![c].yin = Yin(scratch[SqrMagOwner(c)], calls[c].sum,
                                           pd.params.FrameSize \div 2 + 1)]
  /\ UNCHANGED <<yinVars, scratch, peakVars>>

\* DetectFromSpectrum: the tolerance check, the tau selection and the return
Select(c) ==
  /\ calls[c].pc = "tau"
  /\ calls' = [calls EXCEPT ![c].pc = "done", ![c].res = AfterYin(pd, calls[c].yin)]
  /\ UNCHANGED <<yinVars, scratch, peakVars>>

ConcNext ==
  \E c \in Callers :
    \/ BeginDetectFromFrame(c)
    \/ CheckFrameLen(c)
    \/ Window(c)
    \/ Transform(c)
    \/ BeginDetectFromSpectrum(c)
    \/ CheckSpectrumLen(c)
    \/ Weigh(c)
    \/ ComputeYin(c)
    \/ Select(c)

SpecConc == ConcInit /\ [][ConcNext]_vars

\* ------------------------------------------------------------------------
\* The use of a peak detector: New once, then a DetectPeaks call
\* ------------------------------------------------------------------------

\* the longest input
MaxLen == 5

PeakValues == {FInt(v) : v \in 0..2}

\* the strictly increasing inputs 0, 1, 2, ... of every length
Ramps == {[i \in 1..n |-> FInt(i - 1)] : n \in 2..MaxLen}

PeakInputs == UNION {[1..n -> PeakValues] : n \in 0..MaxLen} \cup Ramps

PeakParamsSet ==
  [Range : {FInt(4)},
   MaxPeaks : {0, 2, 5},
   MaxPosition : {FInt(2), FInt(4)},
   MinPosition : {FInt(0), FInt(2)},
   Threshold : {FInt(0), FInt(1)},
   OrderBy : {PeakOrderByPosition, PeakOrderByAmplitude},
   ShouldInterpolate : BOOLEAN,
   MinPeakDistance : {FInt(0), FInt(3)}]
    \cup
  [Range : {FInt(4)}, MaxPeaks : {5}, MaxPosition : {FInt(4)},
   MinPosition : {FInt(0)}, Threshold : {FInt(0)}, OrderBy : {"magnitude"},
   ShouldInterpolate : {FALSE}, MinPeakDistance : {FInt(0)}]

PeakInit ==
  /\ params = NilRef
  /\ pd = NilRef
  /\ err = Nil
  /\ op = "unused"
  /\ arg = <<>>
  /\ buf = <<>>
  /\ res = NilRef
  /\ calls = <<>>
  /\ scratch = <<>>
  /\ peakDetector = NilRef
  /\ peakErr = Nil
  /\ peakOp = "start"
  /\ input = <<>>
  /\ output = NilRef

NewPeakDetectorCall ==
  /\ peakOp = "start"
  /\ \E p \in PeakParamsSet :
       LET r == NewPeakDetector(p)
       IN /\ peakDetector' = r.pd
          /\ peakErr' = r.err
          /\ peakOp' = IF r.err = Nil THEN "ready" ELSE "failed"
  /\ UNCHANGED <<input, output, yinVars, concVars>>

DetectPeaksCall ==
  /\ peakOp = "ready"
  /\ \E in \in PeakInputs :
       /\ input' = in
       /\ output' = DetectPeaks(peakDetector, in)
  /\ peakOp' = "DetectPeaks"
  /\ UNCHANGED <<peakDetector, peakErr, yinVars, concVars>>

PeakNext == NewPeakDetectorCall \/ DetectPeaksCall

SpecPeaks == PeakInit /\ [][PeakNext]_vars

\* ------------------------------------------------------------------------
\* Claims about New, DetectFromFrame and DetectFromSpectrum
\* ------------------------------------------------------------------------

Detected == op \in {"DetectFromFrame", "DetectFromSpectrum"}

\* the spectrum the last Detect call worked on
LastSpectrum ==
  IF op = "DetectFromFrame" THEN prepareSpectrum(arg).spectrum ELSE arg

RightSize ==
  \/ op = "DetectFromFrame" /\ Len(arg) = pd.params.FrameSize
  \/ op = "DetectFromSpectrum" /\ Len(arg) = pd.params.FrameSize \div 2 + 1

LastSum == SqrMagSum(SqrMag(pd, LastSpectrum), pd.params.FrameSize \div 2 + 1)

LastYin == Yin(SqrMag(pd, LastSpectrum), LastSum, pd.params.FrameSize \div 2 + 1)

\* the last call got a rightly sized input that is not silent and that the
\* tolerance check lets through
ReachedTauSelection ==
  /\ Detected
  /\ RightSize
  /\ ~FEq(LastSum, FInt(0))
  /\ ~(FLt(pd.params.Tolerance, FInt(1))
       /\ FGe(SlicesMin(LastYin, Len(LastYin)), pd.params.Tolerance))

\* C1: with ShouldInterpolate set, a Detect call on a rightly sized, non-silent
\* input that passes the tolerance check returns a result or the error that no
\* peak was found in the period range, and never a "not implemented" error.
C1_InterpolationSupported ==
  (ReachedTauSelection /\ pd.params.ShouldInterpolate)
    => res.err \in {Nil, "no peak found in the period range"}

\* C2: New returns an error and no detector whenever
\* MinFrequency >= MaxFrequency.
C2_NewRejectsMinGeMax ==
  (op # "start" /\ FGe(params.MinFrequency, params.MaxFrequency))
    => (pd = NilRef /\ err # Nil)

AllZero(frame) == \A i \in 1..Len(frame) : frame[i] = FInt(0)

\* C3: for every detector New returns, DetectFromFrame on an all-zero frame of
\* length FrameSize returns frequency 0, confidence 0 and no error, whatever
\* the weighting type, the tolerance and the interpolation flag.
C3_SilentFrameIsNoPitch ==
  (op = "DetectFromFrame" /\ Len(arg) = pd.params.FrameSize /\ AllZero(arg))
    => res = NoPitch

\* an all-zero frame went through a detector whose tolerance check is armed
\* and whose tau selection would be the interpolated one
C3_Witness ==
  /\ op = "DetectFromFrame"
  /\ Len(arg) = pd.params.FrameSize
  /\ pd.params.FrameSize = 4
  /\ AllZero(arg)
  /\ pd.params.ShouldInterpolate
  /\ FLt(pd.params.Tolerance, FInt(1))
  /\ ToUpper(pd.params.WeightingType) = "D"
  /\ res = NoPitch

\* C4: DetectFromFrame on a frame whose length is not FrameSize returns an
\* error with frequency 0 and confidence 0 and leaves the caller's frame
\* buffer as it was; DetectFromSpectrum on a spectrum whose length is not
\* FrameSize/2+1 returns an error with frequency 0 and confidence 0.
C4_WrongSizeIsError ==
  /\ (op = "DetectFromFrame" /\ Len(arg) # pd.params.FrameSize)
       => /\ res = Result(FInt(0), FInt(0), ErrFrameSize)
          /\ buf = arg
  /\ (op = "DetectFromSpectrum" /\ Len(arg) # pd.params.FrameSize \div 2 + 1)
       => res = Result(FInt(0), FInt(0), ErrSpectrumSize)

\* a frame of the wrong length that windowing would have changed was refused
C4_Witness ==
  /\ op = "DetectFromFrame"
  /\ Len(arg) = pd.params.FrameSize + 1
  /\ applyHannWindow(arg) # arg
  /\ res.err = ErrFrameSize
  /\ buf = arg

\* the lowest index in lo..hi at which yin takes its minimum over lo..hi
ArgMin(yin, lo, hi) ==
  CHOOSE i \in lo..hi :
    /\ \A k \in lo..hi : FLe(At(yin, i), At(yin, k))
    /\ \A k \in lo..(i - 1) : FLt(At(yin, i), At(yin, k))

\* C9: with interpolation disabled, on a spectrum that passes the zero-energy
\* and tolerance checks, the call returns frequency = SampleRate / tau and
\* confidence = 1 - yin[tau], where tau is the lowest index in
\* [minPeriodSamples, maxPeriodSamples] at which yin takes its minimum over
\* that range, also when that index is minPeriodSamples.  (Stated for
\* detectors with minPeriodSamples >= 1 and spectra whose yin holds no NaN.)
C9_DirectScanPicksFirstMinimum ==
  (/\ ReachedTauSelection
   /\ ~pd.params.ShouldInterpolate
   /\ pd.minPeriodSamples >= 1
   /\ \A i \in 1..Len(LastYin) : IsFinite(LastYin[i]))
    => LET tau == ArgMin(LastYin, pd.minPeriodSamples, pd.maxPeriodSamples)
       IN res = Result(FDiv(pd.params.SampleRate, FInt(tau)),
                       FSub(FInt(1), At(LastYin, tau)), Nil)

\* C10: every detector New returns has
\* 1 <= minPeriodSamples < maxPeriodSamples <= FrameSize/2.
C10_PeriodRange ==
  pd # NilRef
    => /\ 1 <= pd.minPeriodSamples
       /\ pd.minPeriodSamples < pd.maxPeriodSamples
       /\ pd.maxPeriodSamples <= pd.params.FrameSize \div 2
\* C5: concurrent Detect calls on one detector, each with a buffer of its
\* own, leave the detector as New built it, and every call returns what it
\* returns when run alone (and leaves its frame buffer as it does alone);
\* until a call windows its frame, the buffer holds what the caller put there.
C5_ConcurrentCallsAsAlone ==
  /\ pd = New(params).pd
  /\ \A c \in Callers :
       /\ calls[c].pc \in {"frame.len", "window"} => calls[c].buf = calls[c].arg
       /\ (calls[c].pc = "done" /\ calls[c].kind = "frame")
            => /\ calls[c].res = DetectFromFrame(pd, calls[c].arg).res
               /\ calls[c].buf = DetectFromFrame(pd, calls[c].arg).frame
       /\ (calls[c].pc = "done" /\ calls[c].kind = "spectrum")
            => calls[c].res = DetectFromSpectrum(pd, calls[c].arg)

\* two calls on different inputs overlapped (the second built its sqrMag
\* while the first was between building and reading its own) and both
\* returned, the first with a pitch
C5_Witness ==
  /\ \A c \in Callers : calls[c].pc = "done"
  /\ calls[1].overlapped
  /\ calls[1].kind = "frame"
  /\ calls[1].arg # calls[2].arg
  /\ calls[1].res.err = Nil
  /\ calls[1].res.frequency # FInt(0)
  /\ calls[2].res.err = Nil
\* ------------------------------------------------------------------------
\* Claims about DetectPeaks
\* ------------------------------------------------------------------------

\* a DetectPeaks call was made
PeaksDetected == peakOp = "DetectPeaks"

\* the number of peaks left after the pruning and the ordering
NumKept(pd_, in) == Len(Arrange(pd_, Candidates(pd_, in).peaks).peaks)

Min(a, b) == IF a < b THEN a ELSE b

\* C6: DetectPeaks is total: it returns an error exactly when the input is
\* shorter than 2, and for every longer input it returns (no index out of
\* range) positions and amplitudes of the same length, the smaller of
\* MaxPeaks and the number of peaks kept.
C6_DetectPeaksTotal ==
  PeaksDetected =>
    /\ output.status = "returned"
    /\ (output.err # Nil) <=> (Len(input) < 2)
    /\ Len(input) >= 2 =>
         /\ Len(output.positions) = Len(output.amplitudes)
         /\ Len(output.positions)
              = Min(peakDetector.params.MaxPeaks, NumKept(peakDetector, input))

\* the positions a and b are closer than d
Closer(a, b, d) == FGt(a, FSub(b, d)) /\ FLt(a, FAdd(b, d))

Remaining(pruned, p) == \E i \in DOMAIN pruned : pruned[i] = p

\* what the pruning promises of the peaks left, given the peaks sorted by
\* magnitude before it
PrunedWell(sorted, pruned, d) ==
  /\ \A a, b \in DOMAIN pruned :
       a # b => ~Closer(pruned[a].position, pruned[b].position, d)
  /\ Remaining(pruned, sorted[1])
  /\ \A l \in DOMAIN sorted :
       ~Remaining(pruned, sorted[l])
         => \E k \in 1..(l - 1) :
              /\ Remaining(pruned, sorted[k])
              /\ Closer(sorted[l].position, sorted[k].position, d)

PruningCompletes(pd_, sorted, pruned) ==
  /\ ~pruned.panic
  /\ PrunedWell(sorted, pruned.peaks, pd_.params.MinPeakDistance)

PruningRan(pd_, found) == ~found.panic /\ ShouldPrune(pd_, found.peaks)

\* C7: with MinPeakDistance d > 0 and more than one peak found, DetectPeaks
\* completes, no two peaks left are closer than d, the peak of the greatest
\* magnitude is left, and every peak removed is closer than d to a peak left
\* that is before it in the order by magnitude.
C7_PruningKeepsStronger ==
  (PeaksDetected /\ Len(input) >= 2 /\ PruningRan(peakDetector, Candidates(peakDetector, input)))
    => /\ output.status = "returned"
       /\ PruningCompletes(peakDetector,
                           sortPeaksByMagnitude(Candidates(peakDetector, input).peaks),
                           Prune(peakDetector, Candidates(peakDetector, input).peaks))

\* C8: every position DetectPeaks returns is inside the window:
\* MinPosition <= p <= MaxPosition.
C8_PeaksInsideWindow ==
  (PeaksDetected /\ output.status = "returned")
    => \A i \in DOMAIN output.positions :
         /\ FLe(peakDetector.params.MinPosition, output.positions[i])
         /\ FLe(output.positions[i], peakDetector.params.MaxPosition)

\* the i-th peak DetectPeaks returned
OutputPeak(i) == Peak(output.positions[i], output.amplitudes[i])

\* the peaks returned are in the order asked for
InOrder(orderBy) ==
  \A i, j \in DOMAIN output.positions :
    i < j => IF orderBy = PeakOrderByPosition
             THEN CompareByPosition(OutputPeak(i), OutputPeak(j)) <= 0
             ELSE CompareByMagnitude(OutputPeak(i), OutputPeak(j)) <= 0

\* C11: what DetectPeaks returns is ordered as OrderBy asks, with or without
\* pruning and interpolation: by position ascending (equal positions by
\* magnitude descending), or by magnitude descending (equal magnitudes by
\* position ascending).
C11_OutputOrdered ==
  (PeaksDetected /\ output.status = "returned" /\ output.err = Nil)
    => InOrder(peakDetector.params.OrderBy)

StrictlyIncreasing(in) == \A i \in 1..(Len(in) - 1) : FLt(in[i], in[i + 1])

\* the claim's condition for the peak at the last sample
LastSampleReported(pd_, in) ==
  /\ FGt(in[Len(in)], pd_.params.Threshold)
  /\ FLt(FInt(Len(in) - 2), FDiv(pd_.params.MaxPosition, Scale(pd_, in)))
  /\ FLe(FDiv(pd_.params.MaxPosition, Scale(pd_, in)), FInt(Len(in) - 1))
  /\ pd_.params.MaxPeaks >= 1

\* the last sample of the input, as the only peak
OnlyLastSample(pd_, in) ==
  /\ output.positions = <<FMul(FInt(Len(in) - 1), Scale(pd_, in))>>
  /\ output.amplitudes = <<in[Len(in)]>>

\* C12: for a strictly increasing input of length M >= 2, DetectPeaks
\* returns exactly the peak at the last sample (position (M-1)*scale,
\* magnitude values[M-1]) when values[M-1] > Threshold, MaxPosition/scale is
\* in (M-2, M-1] and MaxPeaks >= 1, and returns no peak otherwise.
C12_IncreasingInput ==
  (PeaksDetected /\ Len(input) >= 2 /\ StrictlyIncreasing(input))
    => /\ output.status = "returned"
       /\ output.err = Nil
       /\ IF LastSampleReported(peakDetector, input)
          THEN OnlyLastSample(peakDetector, input)
          ELSE output.positions = <<>> /\ output.amplitudes = <<>>
====
